---- MODULE Spec2Model ----
(***************************************************************************)
(* The search router (SearchRouter) of the expense application: its text   *)
(* buffer, caret selection, autocomplete query value and substitution map, *)
(* and the handlers that change them.  Text is a sequence of tokens: one   *)
(* token stands for one character, or for one indivisible run of them      *)
(* such as the filter keyword "in:".                                       *)
(*                                                                         *)
(* One action is one handler invocation with the values of the last render *)
(* (React closures), its state setters applied in call order, the last     *)
(* write of a state cell winning.  `calls` keeps the handler's external    *)
(* and setter calls in the order the code makes them.                      *)
(***************************************************************************)
EXTENDS Integers, Sequences, FiniteSets, TLC

\* ---------------------------------------------------------------- bounds
\* Edits of the text by the user in one run of the model: a character typed
\* or deleted, a suggestion accepted, a browsed item's text shown.
MaxEdits == 2
\* Deferred focus tasks (InteractionManager.runAfterInteractions) in flight.
MaxPendingTasks == 1

\* ------------------------------------------------------------- vocabulary
Undefined == "undefined"
UndefinedText == <<"undefined">>
EmptyText == <<>>
NBSP == "nbsp"
SPACE == " "
COMMA == ","
LF == "lf"
QUOTE == "quote"

CHAT == "chat"
INVOICE == "invoice"
EXPENSE == "expense"

CONTEXTUAL_SUGGESTION == "contextualSuggestion"
AUTOCOMPLETE_SUGGESTION == "autocompleteSuggestion"
SEARCH == "searchItem"

KEY_TYPE == "type:"
KEY_POLICY_ID == "policyID:"
KEY_TO == "to:"
KEY_IN == "in:"

INDIVIDUAL == "individual"
BUSINESS == "business"

IsDelimiter(c) == c \in {SPACE, NBSP, COMMA}
IsWhitespace(c) == c \in {SPACE, NBSP, LF}
IsKeyToken(c) == c \in {KEY_TYPE, KEY_POLICY_ID, KEY_TO, KEY_IN}

\* JavaScript truthiness of a string and of a text.
Truthy(s) == s # Undefined /\ s # ""
TruthyText(t) == t # UndefinedText /\ t # EmptyText

\* a ?? b on texts.
Coalesce(a, b) == IF a # UndefinedText THEN a ELSE b

Min(S) == CHOOSE x \in S : \A y \in S : x <= y
Max(S) == CHOOSE x \in S : \A y \in S : y <= x

\* --------------------------------------------------- library functions
\* StringUtils.lineBreaksToSpaces(text, useNonBreakingSpace): every line break
\* becomes one (non-breaking) space.
RECURSIVE LineBreaksToSpaces(_, _)
LineBreaksToSpaces(text, useNonBreakingSpace) ==
    IF text = EmptyText THEN EmptyText
    ELSE <<IF Head(text) = LF THEN (IF useNonBreakingSpace THEN NBSP ELSE SPACE) ELSE Head(text)>>
         \o LineBreaksToSpaces(Tail(text), useNonBreakingSpace)

\* sanitizeSearchValue: a value holding a space or a comma is wrapped in quotes.
SanitizeSearchValue(str) ==
    IF \E i \in 1..Len(str) : IsDelimiter(str[i])
    THEN <<QUOTE>> \o str \o <<QUOTE>>
    ELSE str

\* The text ends inside a filter fragment: a value token that follows a
\* filter keyword with no whitespace in between.
EndsMidFragment(text) ==
    /\ Len(text) >= 2
    /\ ~IsDelimiter(text[Len(text)])
    /\ ~IsKeyToken(text[Len(text)])
    /\ \E j \in 1..(Len(text) - 1) :
          /\ IsKeyToken(text[j])
          /\ \A k \in (j + 1)..Len(text) : text[k] \notin {SPACE, NBSP}

\* getAutocompleteQueryWithComma(prevQuery, newQuery): when one character is
\* appended at the end of a text that ends mid-fragment, and the character is
\* no delimiter, a comma is put in front of it.
GetAutocompleteQueryWithComma(prevQuery, newQuery) ==
    IF /\ Len(newQuery) = Len(prevQuery) + 1
       /\ SubSeq(newQuery, 1, Len(prevQuery)) = prevQuery
       /\ EndsMidFragment(prevQuery)
       /\ ~IsDelimiter(newQuery[Len(newQuery)])
    THEN prevQuery \o <<COMMA, newQuery[Len(newQuery)]>>
    ELSE newQuery

\* getQueryWithoutAutocompletedPart(searchQuery): the text up to and including
\* its last colon (the end of a filter keyword) or comma.
GetQueryWithoutAutocompletedPart(searchQuery) ==
    LET cuts == {i \in 1..Len(searchQuery) :
                    IsKeyToken(searchQuery[i]) \/ searchQuery[i] = COMMA}
    IN  IF cuts = {} THEN EmptyText ELSE SubSeq(searchQuery, 1, Max(cuts))

\* The key occurs in the text at position i.
MatchesAt(text, key, i) ==
    /\ Len(key) > 0
    /\ i + Len(key) - 1 <= Len(text)
    /\ SubSeq(text, i, i + Len(key) - 1) = key

Occurs(key, text) == \E i \in 1..Len(text) : MatchesAt(text, key, i)

RECURSIVE ApplySubstitutions(_, _, _)
ApplySubstitutions(query, substitutions, i) ==
    IF i > Len(query) THEN EmptyText
    ELSE LET hits == {e \in substitutions : MatchesAt(query, e.key, i)}
         IN  IF hits = {}
             THEN <<query[i]>> \o ApplySubstitutions(query, substitutions, i + 1)
             ELSE LET e == CHOOSE x \in hits : \A y \in hits : Len(y.key) <= Len(x.key)
                  IN  <<e.id>> \o ApplySubstitutions(query, substitutions, i + Len(e.key))

\* getQueryWithSubstitutions(query, substitutions): every literal occurrence
\* of a key of the map is replaced by the identifier it maps to.
GetQueryWithSubstitutions(query, substitutions) ==
    ApplySubstitutions(query, substitutions, 1)

Trim(text) ==
    LET idx == {i \in 1..Len(text) : ~IsWhitespace(text[i])}
    IN  IF idx = {} THEN EmptyText ELSE SubSeq(text, Min(idx), Max(idx))

\* getQueryWithUpdatedValues(query): the normalised query, or the empty text
\* when nothing usable is left: an empty or whitespace-only query, or one
\* that ends in a filter keyword with no value.
GetQueryWithUpdatedValues(query) ==
    LET trimmed == Trim(query)
    IN  IF trimmed = EmptyText THEN EmptyText
        ELSE IF IsKeyToken(trimmed[Len(trimmed)]) THEN EmptyText
        ELSE trimmed

\* getUpdatedSubstitutionsMap(query, substitutions): the maps it may return.
\* The map is kept as it is or replaced by the empty map.
GetUpdatedSubstitutionsMap(query, substitutions) ==
    {substitutions, {}}

\* {[key]: identifier}: the merge without the spread of the map.
MergeSubstitutionWithoutSpread(substitutions, key, identifier) ==
    {[key |-> key, id |-> identifier]}

\* {...substitutions, [key]: identifier}
MergeSubstitution(substitutions, key, identifier) ==
    {e \in substitutions : e.key # key} \cup {[key |-> key, id |-> identifier]}

Keys(substitutions) == {e.key : e \in substitutions}

\* ------------------------------------------------------------- the data
\* The options of recentReports: chat rooms, invoice rooms and policy expense
\* chats, with and without the identifier the contextual suggestion carries.
RecentReports ==
    { [reportID |-> "r1", text |-> <<"T", SPACE, "S">>, alternateText |-> UndefinedText,
       isInvoiceRoom |-> FALSE, isPolicyExpenseChat |-> FALSE, policyID |-> Undefined,
       receiverType |-> Undefined, receiverAccountID |-> Undefined],
      [reportID |-> "r3", text |-> <<"v">>, alternateText |-> UndefinedText,
       isInvoiceRoom |-> TRUE, isPolicyExpenseChat |-> FALSE, policyID |-> "p1",
       receiverType |-> INDIVIDUAL, receiverAccountID |-> "a7"],
      [reportID |-> "r4", text |-> <<"w">>, alternateText |-> UndefinedText,
       isInvoiceRoom |-> TRUE, isPolicyExpenseChat |-> FALSE, policyID |-> "p1",
       receiverType |-> BUSINESS, receiverAccountID |-> Undefined],
      [reportID |-> "r5", text |-> UndefinedText, alternateText |-> <<"x">>,
       isInvoiceRoom |-> FALSE, isPolicyExpenseChat |-> TRUE, policyID |-> "p2",
       receiverType |-> Undefined, receiverAccountID |-> Undefined] }

\* The focused screen's report: none, one of recentReports, or one that is not
\* among them.
ContextualReportIDs == {Undefined, "r0"} \cup {r.reportID : r \in RecentReports}

\* An item of the suggestion list: a SearchQueryItem or an OptionData.
Item(kind, type, query, id, mapKey, roomType, policyID, reportID, hasLogin, login) ==
    [kind |-> kind, searchItemType |-> type, searchQuery |-> query,
     autocompleteID |-> id, mapKey |-> mapKey, roomType |-> roomType,
     policyID |-> policyID, reportID |-> reportID, hasLogin |-> hasLogin, login |-> login]

SearchQueryItem(type, query, id, mapKey, roomType, policyID) ==
    Item("SearchQueryItem", type, query, id, mapKey, roomType, policyID,
         Undefined, FALSE, Undefined)

OptionData(reportID, hasLogin, login) ==
    Item("OptionData", Undefined, UndefinedText, Undefined, UndefinedText, Undefined,
         Undefined, reportID, hasLogin, login)

isSearchQueryItem(item) == item.kind = "SearchQueryItem"

\* Autocomplete suggestions of the list: with a map key and an identifier,
\* without them, and with an empty query.
AutocompleteItems ==
    { SearchQueryItem(AUTOCOMPLETE_SUGGESTION, <<"g">>, "r1", <<KEY_IN, "g">>, Undefined, Undefined),
      SearchQueryItem(AUTOCOMPLETE_SUGGESTION, <<"chat">>, Undefined, UndefinedText, Undefined, Undefined),
      SearchQueryItem(AUTOCOMPLETE_SUGGESTION, EmptyText, Undefined, UndefinedText, Undefined, Undefined) }

\* Recent searches of the list.
RecentSearchItems ==
    { SearchQueryItem(SEARCH, <<KEY_TYPE, "chat">>, Undefined, UndefinedText, Undefined, Undefined) }

\* People and reports to open directly: a report, a person with a login,
\* and an option with neither.
NavigationItems ==
    { OptionData("r1", TRUE, "u1"),
      OptionData(Undefined, TRUE, "u2"),
      OptionData(Undefined, FALSE, Undefined) }

\* What a keystroke appends.
TypedCharacters == {"a", LF, KEY_IN}

\* ------------------------------------------------------------ the state
VARIABLES
    textInputValue,             \* the text the user sees
    autocompleteQueryValue,     \* the text last used for autocomplete
    selection,                  \* [start, end] of the caret
    autocompleteSubstitutions,  \* the substitution map: a set of [key, id]
    shouldScrollRef,            \* shouldScrollRef.current
    isSearchRouterDisplayed,    \* the prop of that name
    isRecentSearchesDataLoaded, \* the input and the list are rendered
    debouncePending,            \* the 500ms timer of useDebouncedState is running
    pendingFocusTasks,          \* runAfterInteractions tasks not yet run
    edits,                      \* edits of the text so far
    lastOp,                     \* the last handler: its name, the item it was given,
                                \* the query it gave submitSearch, the updatedQuery
                                \* submitSearch computed, and, when it called
                                \* submitSearch, the query the handler before it
                                \* submitted with success
    calls,                      \* the last handler's calls, in order
    pressable                   \* the last render of a WebGenericPressable:
                                \* its props and the tabIndex it rendered

vars == <<textInputValue, autocompleteQueryValue, selection, autocompleteSubstitutions,
          shouldScrollRef, isSearchRouterDisplayed,
          isRecentSearchesDataLoaded, debouncePending,
          pendingFocusTasks, edits, lastOp, calls, pressable>>

\* The values a handler closes over, and the record its setters write to.
Cur ==
    [text |-> textInputValue, autocompleteQueryValue |-> autocompleteQueryValue,
     selection |-> selection, substitutions |-> autocompleteSubstitutions,
     shouldScroll |-> shouldScrollRef, displayed |-> isSearchRouterDisplayed,
     debouncePending |-> debouncePending, pendingTasks |-> pendingFocusTasks,
     submitted |-> UndefinedText, updatedQuery |-> UndefinedText, calls |-> <<>>,
     fault |-> "none"]

Call(s, name) == [s EXCEPT !.calls = Append(@, name)]

\* ------------------------------------------------------------ exceptions
\* The collaborator that throws in a handler invocation, if one does:
\* getUpdatedSubstitutionsMap (inside the try of onSearchQueryChange),
\* InteractionManager.runAfterInteractions (inside the try of
\* setFocusAndScrollToRight) or the navigation (Navigation.navigate,
\* navigateToAndOpenReport).
Faults == {"getUpdatedSubstitutionsMap", "runAfterInteractions", "navigate"}

\* An exception is in flight: the code after the throwing call is skipped.
Throw(s) == Call(s, "throw")
Thrown(s) == s.calls # <<>> /\ s.calls[Len(s.calls)] = "throw"
Caught(s) == [s EXCEPT !.calls = SubSeq(@, 1, Len(@) - 1)]

\* catch (error) { Log.alert(...); throw error; }
CatchLogRethrow(s) == IF Thrown(s) THEN Throw(Call(Caught(s), "Log.alert")) ELSE s

\* catch (error) { Log.alert(...); }
CatchLog(s) == IF Thrown(s) THEN Call(Caught(s), "Log.alert") ELSE s

\* ---------------------------------------------------------- the setters
\* setTextInputValue of useDebouncedState: the value at once, and the timer
\* for the debounced value (re)started.
SetTextInputValue(s, text) ==
    Call([s EXCEPT !.text = text, !.debouncePending = TRUE], "setTextInputValue")

SetAutocompleteQueryValue(s, text) ==
    Call([s EXCEPT !.autocompleteQueryValue = text], "setAutocompleteQueryValue")

SetSelection(s, start, end) ==
    Call([s EXCEPT !.selection = [start |-> start, end |-> end]], "setSelection")

SetAutocompleteSubstitutions(s, substitutions) ==
    Call([s EXCEPT !.substitutions = substitutions], "setAutocompleteSubstitutions")

\* ------------------------------------------------------ the collaborators
\* The onRouterClose prop: the router is no longer displayed.
OnRouterClose(s) == Call([s EXCEPT !.displayed = FALSE], "onRouterClose")

\* Navigation.navigate(route)
Navigate(s) ==
    IF s.fault = "navigate" THEN Throw(Call(s, "navigate")) ELSE Call(s, "navigate")

\* navigateToAndOpenReport(logins, false)
NavigateToAndOpenReport(s) ==
    IF s.fault = "navigate" THEN Throw(Call(s, "navigateToAndOpenReport"))
    ELSE Call(s, "navigateToAndOpenReport")

\* backHistory(callback): the callback runs once, before backHistory returns.
\* `ran` is the record after the callback has run on `s`.
BackHistory(s, ran) == ran

IsNavigation(name) == name \in {"navigate", "navigateToAndOpenReport"}
NavigationCalls(cs) == Cardinality({i \in 1..Len(cs) : IsNavigation(cs[i])})
Called(cs, name) == \E i \in 1..Len(cs) : cs[i] = name

\* ------------------------------------------------------------ the handlers
\* getContextualSearchAutocompleteKey with the keys of its two cases swapped.
getContextualSearchAutocompleteKeySwapped(item) ==
    IF item.roomType = INVOICE THEN <<KEY_IN>> \o item.searchQuery
    ELSE IF item.roomType = CHAT THEN <<KEY_TO>> \o item.searchQuery
    ELSE UndefinedText

getContextualSearchAutocompleteKey(item) ==
    IF item.roomType = INVOICE THEN <<KEY_TO>> \o item.searchQuery
    ELSE IF item.roomType = CHAT THEN <<KEY_IN>> \o item.searchQuery
    ELSE UndefinedText

getContextualSearchQuery(item) ==
    LET baseQuery == <<KEY_TYPE, item.roomType>>
        query == Coalesce(item.searchQuery, EmptyText)
        additionalQuery ==
            IF item.roomType \in {EXPENSE, INVOICE}
            THEN <<SPACE, KEY_POLICY_ID, item.policyID>>
                 \o (IF item.roomType = INVOICE /\ Truthy(item.autocompleteID)
                     THEN <<SPACE, KEY_TO>> \o SanitizeSearchValue(query)
                     ELSE EmptyText)
            ELSE <<SPACE, KEY_IN>> \o SanitizeSearchValue(query)
    IN  baseQuery \o additionalQuery

\* getAdditionalSections without the check that the router is displayed.
getAdditionalSectionsWhenHidden(c, contextualReportID, recentReports) ==
    IF ~Truthy(contextualReportID) THEN {}
    ELSE IF c.text # EmptyText THEN {}
    ELSE LET found == {o \in recentReports : o.reportID = contextualReportID}
         IN  IF found = {} THEN {}
             ELSE LET report == CHOOSE o \in found : TRUE
                      reportQueryValue ==
                          Coalesce(report.text, Coalesce(report.alternateText, <<report.reportID>>))
                      invoiceID ==
                          IF report.receiverType = INDIVIDUAL THEN report.receiverAccountID ELSE ""
                      expenseID == IF Truthy(report.policyID) THEN report.policyID ELSE ""
                      roomType ==
                          IF report.isPolicyExpenseChat THEN EXPENSE
                          ELSE IF report.isInvoiceRoom THEN INVOICE
                          ELSE CHAT
                      autocompleteID ==
                          IF report.isPolicyExpenseChat THEN expenseID
                          ELSE IF report.isInvoiceRoom THEN invoiceID
                          ELSE report.reportID
                  IN  {SearchQueryItem(CONTEXTUAL_SUGGESTION, reportQueryValue, autocompleteID,
                                       UndefinedText, roomType, report.policyID)}

\* The contextual section: the empty set for undefined, or the one item.
getAdditionalSections(c, contextualReportID, recentReports) ==
    IF ~Truthy(contextualReportID) THEN {}
    ELSE IF c.text # EmptyText THEN {}
    ELSE IF ~c.displayed THEN {}
    ELSE LET found == {o \in recentReports : o.reportID = contextualReportID}
         IN  IF found = {} THEN {}
             ELSE LET report == CHOOSE o \in found : TRUE
                      reportQueryValue ==
                          Coalesce(report.text, Coalesce(report.alternateText, <<report.reportID>>))
                      invoiceID ==
                          IF report.receiverType = INDIVIDUAL THEN report.receiverAccountID ELSE ""
                      expenseID == IF Truthy(report.policyID) THEN report.policyID ELSE ""
                      roomType ==
                          IF report.isPolicyExpenseChat THEN EXPENSE
                          ELSE IF report.isInvoiceRoom THEN INVOICE
                          ELSE CHAT
                      autocompleteID ==
                          IF report.isPolicyExpenseChat THEN expenseID
                          ELSE IF report.isInvoiceRoom THEN invoiceID
                          ELSE report.reportID
                  IN  {SearchQueryItem(CONTEXTUAL_SUGGESTION, reportQueryValue, autocompleteID,
                                       UndefinedText, roomType, report.policyID)}

\* The "search for the typed text" item, when there is text.
searchQueryItem(c) ==
    IF c.text # EmptyText
    THEN {SearchQueryItem(SEARCH, c.text, Undefined, UndefinedText, Undefined, Undefined)}
    ELSE {}

\* onSearchQueryChange(userQuery, autoScrollToRight); updatedSubstitutionsMap is
\* what getUpdatedSubstitutionsMap returned.
onSearchQueryChange(c, s, userQuery, autoScrollToRight, updatedSubstitutionsMap) ==
    LET singleLineUserQuery == LineBreaksToSpaces(userQuery, TRUE)
        updatedUserQuery == GetAutocompleteQueryWithComma(c.text, singleLineUserQuery)
        s1 == [s EXCEPT !.shouldScroll = autoScrollToRight \/ @]
        s2 == SetAutocompleteQueryValue(SetTextInputValue(s1, updatedUserQuery), updatedUserQuery)
        s3 == IF c.fault = "getUpdatedSubstitutionsMap" THEN Throw(s2)
              ELSE IF c.substitutions # updatedSubstitutionsMap
              THEN SetAutocompleteSubstitutions(s2, updatedSubstitutionsMap)
              ELSE s2
    IN  CatchLogRethrow(s3)

\* The callback of submitSearch with its two calls in the other order.
SubmitCallbackNavigateFirst(s) == OnRouterClose(Navigate(s))

\* The callback submitSearch hands to backHistory.
SubmitCallback(s) == Navigate(OnRouterClose(s))

\* submitSearch without its early return on an empty updatedQuery.
submitSearchWithoutReturn(c, s, queryString) ==
    LET queryWithSubstitutions == GetQueryWithSubstitutions(queryString, c.substitutions)
        updatedQuery == GetQueryWithUpdatedValues(queryWithSubstitutions)
        s0 == [s EXCEPT !.submitted = queryString, !.updatedQuery = updatedQuery]
    IN  SetAutocompleteQueryValue(
            SetTextInputValue(BackHistory(s0, SubmitCallback(s0)), EmptyText), EmptyText)

\* submitSearch without its setTextInputValue('').
submitSearchKeepingText(c, s, queryString) ==
    LET queryWithSubstitutions == GetQueryWithSubstitutions(queryString, c.substitutions)
        updatedQuery == GetQueryWithUpdatedValues(queryWithSubstitutions)
        s0 == [s EXCEPT !.submitted = queryString, !.updatedQuery = updatedQuery]
    IN  IF updatedQuery = EmptyText THEN s0
        ELSE SetAutocompleteQueryValue(BackHistory(s0, SubmitCallback(s0)), EmptyText)

submitSearch(c, s, queryString) ==
    LET queryWithSubstitutions == GetQueryWithSubstitutions(queryString, c.substitutions)
        updatedQuery == GetQueryWithUpdatedValues(queryWithSubstitutions)
        s0 == [s EXCEPT !.submitted = queryString, !.updatedQuery = updatedQuery]
        ran == BackHistory(s0, SubmitCallback(s0))
    IN  IF updatedQuery = EmptyText THEN s0
        ELSE IF Thrown(ran) THEN ran
        ELSE SetAutocompleteQueryValue(SetTextInputValue(ran, EmptyText), EmptyText)

\* setTextAndUpdateSelection that also sets the query value of the list.
setTextAndUpdateSelectionWithQuery(c, s, text) ==
    SetSelection([SetAutocompleteQueryValue(SetTextInputValue(s, text), text)
                     EXCEPT !.shouldScroll = TRUE],
                 Len(text), Len(text))

setTextAndUpdateSelection(c, s, text) ==
    SetSelection([SetTextInputValue(s, text) EXCEPT !.shouldScroll = TRUE], Len(text), Len(text))

\* setFocusAndScrollToRight: the focus and the scroll are handed to
\* InteractionManager.runAfterInteractions.
setFocusAndScrollToRight(s) ==
    IF s.fault = "runAfterInteractions"
    THEN CatchLog(Throw(Call(s, "runAfterInteractions")))
    ELSE Call([s EXCEPT !.pendingTasks = @ + 1], "runAfterInteractions")

\* The text for a suggestion with the typed fragment left in place.
NewSearchQueryUntrimmed(c, item) ==
    IF item.searchItemType = CONTEXTUAL_SUGGESTION
    THEN getContextualSearchQuery(item) \o <<NBSP>>
    ELSE c.text \o SanitizeSearchValue(item.searchQuery) \o <<NBSP>>

\* The text onListItemPress hands to onSearchQueryChange for a suggestion.
NewSearchQuery(c, item) ==
    IF item.searchItemType = CONTEXTUAL_SUGGESTION
    THEN getContextualSearchQuery(item) \o <<NBSP>>
    ELSE GetQueryWithoutAutocompletedPart(c.text) \o SanitizeSearchValue(item.searchQuery) \o <<NBSP>>

\* The callback of onListItemPress with its `else if` written as `if`.
OpenCallbackWithoutElse(s, item) ==
    LET s1 == IF Truthy(item.reportID) THEN Navigate(s) ELSE s
    IN  IF item.hasLogin THEN NavigateToAndOpenReport(s1) ELSE s1

\* The callback onListItemPress hands to backHistory for an OptionData.
OpenCallback(s, item) ==
    IF Truthy(item.reportID) THEN Navigate(s)
    ELSE IF item.hasLogin THEN NavigateToAndOpenReport(s)
    ELSE s

onListItemPress(c, s, item, updatedSubstitutionsMap) ==
    CatchLogRethrow(
    IF isSearchQueryItem(item)
    THEN IF ~TruthyText(item.searchQuery) THEN s
         ELSE IF item.searchItemType = CONTEXTUAL_SUGGESTION
         THEN LET newSearchQuery == NewSearchQuery(c, item)
                  s1 == onSearchQueryChange(c, s, newSearchQuery, TRUE, updatedSubstitutionsMap)
                  s2 == SetSelection(s1, Len(newSearchQuery), Len(newSearchQuery))
                  autocompleteKey == getContextualSearchAutocompleteKey(item)
                  s3 == IF TruthyText(autocompleteKey) /\ Truthy(item.autocompleteID)
                        THEN SetAutocompleteSubstitutions(s2,
                                 MergeSubstitution(c.substitutions, autocompleteKey, item.autocompleteID))
                        ELSE s2
              IN  IF Thrown(s1) THEN s1 ELSE setFocusAndScrollToRight(s3)
         ELSE IF item.searchItemType = AUTOCOMPLETE_SUGGESTION /\ c.text # EmptyText
         THEN LET newSearchQuery == NewSearchQuery(c, item)
                  s1 == onSearchQueryChange(c, s, newSearchQuery, TRUE, updatedSubstitutionsMap)
                  s2 == SetSelection(s1, Len(newSearchQuery), Len(newSearchQuery))
                  s3 == IF TruthyText(item.mapKey) /\ Truthy(item.autocompleteID)
                        THEN SetAutocompleteSubstitutions(s2,
                                 MergeSubstitution(c.substitutions, item.mapKey, item.autocompleteID))
                        ELSE s2
              IN  IF Thrown(s1) THEN s1 ELSE setFocusAndScrollToRight(s3)
         ELSE submitSearch(c, s, item.searchQuery)
    ELSE LET ran == BackHistory(s, OpenCallback(s, item))
         IN  IF Thrown(ran) THEN ran ELSE OnRouterClose(ran))

updateAutocompleteSubstitutions(c, s, item) ==
    IF ~Truthy(item.autocompleteID) \/ ~TruthyText(item.mapKey) THEN s
    ELSE SetAutocompleteSubstitutions(s,
             MergeSubstitution(c.substitutions, item.mapKey, item.autocompleteID))

\* The items the list may show: the contextual section for the report of the
\* focused screen (useNavigationState), the item for the typed text, and the
\* list's own suggestions, recent searches and options.
ListItems(c) ==
    UNION {getAdditionalSections(c, id, RecentReports) : id \in ContextualReportIDs}
        \cup searchQueryItem(c)
        \cup AutocompleteItems \cup RecentSearchItems \cup NavigationItems

\* listRef.current?.getFocusedOption(): undefined (the empty set) when the
\* list has no focused item, or the one item it has focused.
getFocusedOption(c) == {{}} \cup {{item} : item \in ListItems(c)}

\* The input's onSubmit.
onSubmit(c, s, focusedOption, updatedSubstitutionsMap) ==
    IF focusedOption = {} THEN submitSearch(c, s, c.text)
    ELSE onListItemPress(c, s, CHOOSE item \in focusedOption : TRUE, updatedSubstitutionsMap)

\* The effect on [textInputValue]: scroll to the right once, when asked to.
ScrollEffect(s) ==
    IF s.text # textInputValue /\ isRecentSearchesDataLoaded /\ s.shouldScroll
    THEN Call([s EXCEPT !.shouldScroll = FALSE], "scrollToRight")
    ELSE s

\* -------------------------------------------------------------- actions
\* The handler accepted a suggestion into the text.
Accepted(s) == Called(s.calls, "runAfterInteractions")

\* The handler `name`, given `item` (a set: empty for none), ends with the
\* record s0: the next render's state.
Commit(name, item, s0) ==
    \E s \in {ScrollEffect(s0)} :
        /\ textInputValue' = s.text
        /\ autocompleteQueryValue' = s.autocompleteQueryValue
        /\ selection' = s.selection
        /\ autocompleteSubstitutions' = s.substitutions
        /\ shouldScrollRef' = s.shouldScroll
        /\ isSearchRouterDisplayed' = s.displayed
        /\ debouncePending' = s.debouncePending
        /\ pendingFocusTasks' = s.pendingTasks
        /\ lastOp' = [name |-> name, item |-> item, submitted |-> s.submitted,
                       updatedQuery |-> s.updatedQuery,
                       previous |-> IF s.submitted # UndefinedText
                                       /\ TruthyText(lastOp.updatedQuery)
                                    THEN lastOp.submitted ELSE UndefinedText]
        /\ calls' = s.calls
        /\ UNCHANGED pressable

\* ------------------------------------------------- WebGenericPressable
\* The largest tabIndex a parent passes.
MaxTabIndex == 10

\* A boolean prop: absent, true or false.
BooleanProps == {Undefined, "true", "false"}

\* The tabIndex prop: absent, or a number.
TabIndexProps ==
    {[given |-> FALSE, value |-> 0]}
        \cup {[given |-> TRUE, value |-> n] : n \in -1..MaxTabIndex}

PressableProps ==
    [tabIndex : TabIndexProps, accessible : BooleanProps, focusable : BooleanProps]

\* !v for a boolean or undefined.
Not(v) == v # "true"

\* {focusable = true, ...props}: the default stands in for undefined.
Focusable(props) == IF props.focusable = Undefined THEN "true" ELSE props.focusable

\* props.accessible ?? props.accessible === undefined ? true : props.accessible,
\* which is (props.accessible ?? (props.accessible === undefined)) ? true : ...
Accessible(props) ==
    LET test == IF props.accessible # Undefined
                THEN props.accessible = "true"
                ELSE props.accessible = Undefined
    IN  IF test THEN "true" ELSE props.accessible

\* props.tabIndex ?? (!accessible || !focusable) ? -1 : 0, which is
\* (props.tabIndex ?? (!accessible || !focusable)) ? -1 : 0: a number is
\* true when it is not 0.
TabIndex(props) ==
    LET test == IF props.tabIndex.given
                THEN props.tabIndex.value # 0
                ELSE Not(Accessible(props)) \/ Not(Focusable(props))
    IN  IF test THEN -1 ELSE 0

\* The render: the props and the tabIndex handed to GenericPressable.
WebGenericPressable(props) == [props |-> props, tabIndex |-> TabIndex(props)]

Init ==
    /\ textInputValue = EmptyText
    /\ autocompleteQueryValue = EmptyText
    /\ selection = [start |-> 0, end |-> 0]
    /\ autocompleteSubstitutions = {}
    /\ shouldScrollRef = FALSE
    /\ isSearchRouterDisplayed = TRUE
    /\ isRecentSearchesDataLoaded = FALSE
    /\ debouncePending = FALSE
    /\ pendingFocusTasks = 0
    /\ edits = 0
    /\ lastOp = [name |-> "init", item |-> {}, submitted |-> UndefinedText,
                 updatedQuery |-> UndefinedText, previous |-> UndefinedText]
    /\ calls = <<>>
    /\ pressable = WebGenericPressable([tabIndex |-> [given |-> FALSE, value |-> 0],
                                        accessible |-> Undefined,
                                        focusable |-> Undefined])

\* The recent searches have loaded: the input and the list are rendered.
RecentSearchesLoaded ==
    /\ ~isRecentSearchesDataLoaded
    /\ isRecentSearchesDataLoaded' = TRUE
    /\ UNCHANGED edits
    /\ Commit("env", {}, Cur)

\* A keystroke that appends a character.
TypeCharacter ==
    /\ isRecentSearchesDataLoaded
    /\ edits < MaxEdits
    /\ \E ch \in TypedCharacters :
         LET userQuery == Append(textInputValue, ch)
         IN  \E m \in GetUpdatedSubstitutionsMap(LineBreaksToSpaces(userQuery, TRUE),
                                                 autocompleteSubstitutions) :
                 Commit("onSearchQueryChange", {}, onSearchQueryChange(Cur, Cur, userQuery, FALSE, m))
    /\ edits' = edits + 1
    /\ UNCHANGED isRecentSearchesDataLoaded

\* A keystroke that deletes the last character.
DeleteCharacter ==
    /\ isRecentSearchesDataLoaded
    /\ edits < MaxEdits
    /\ textInputValue # EmptyText
    /\ LET userQuery == SubSeq(textInputValue, 1, Len(textInputValue) - 1)
       IN  \E m \in GetUpdatedSubstitutionsMap(LineBreaksToSpaces(userQuery, TRUE),
                                               autocompleteSubstitutions) :
               Commit("onSearchQueryChange", {}, onSearchQueryChange(Cur, Cur, userQuery, FALSE, m))
    /\ edits' = edits + 1
    /\ UNCHANGED isRecentSearchesDataLoaded

\* What getUpdatedSubstitutionsMap may return to a press on `options` (no
\* item or one): onListItemPress reaches it, through onSearchQueryChange,
\* only when it accepts a suggestion.
UpdatedSubstitutionsMaps(c, options) ==
    IF \E item \in options :
           /\ isSearchQueryItem(item)
           /\ TruthyText(item.searchQuery)
           /\ \/ item.searchItemType = CONTEXTUAL_SUGGESTION
              \/ item.searchItemType = AUTOCOMPLETE_SUGGESTION /\ c.text # EmptyText
    THEN LET item == CHOOSE item \in options : TRUE
         IN  GetUpdatedSubstitutionsMap(LineBreaksToSpaces(NewSearchQuery(c, item), TRUE),
                                        c.substitutions)
    ELSE {c.substitutions}

\* The input's submit event (enter).
Enter ==
    /\ isRecentSearchesDataLoaded
    /\ \E focusedOption \in getFocusedOption(Cur) :
         \E m \in UpdatedSubstitutionsMaps(Cur, focusedOption) :
             \E s \in {onSubmit(Cur, Cur, focusedOption, m)} :
                 /\ s.pendingTasks <= MaxPendingTasks
                 /\ Accepted(s) => edits < MaxEdits
                 /\ edits' = IF Accepted(s) THEN edits + 1 ELSE edits
                 /\ Commit("onSubmit", focusedOption, s)
    /\ UNCHANGED isRecentSearchesDataLoaded

\* A press on an item of the list.
ListItemPress ==
    /\ isRecentSearchesDataLoaded
    /\ \E item \in ListItems(Cur) :
         \E m \in UpdatedSubstitutionsMaps(Cur, {item}) :
             \E s \in {onListItemPress(Cur, Cur, item, m)} :
                 /\ s.pendingTasks <= MaxPendingTasks
                 /\ Accepted(s) => edits < MaxEdits
                 /\ edits' = IF Accepted(s) THEN edits + 1 ELSE edits
                 /\ Commit("onListItemPress", {item}, s)
    /\ UNCHANGED isRecentSearchesDataLoaded

\* The list shows the text of the item it browses: setTextQuery.
SetTextQuery ==
    /\ isRecentSearchesDataLoaded
    /\ edits < MaxEdits
    /\ \E item \in RecentSearchItems :
         Commit("setTextAndUpdateSelection", {}, setTextAndUpdateSelection(Cur, Cur, item.searchQuery))
    /\ edits' = edits + 1
    /\ UNCHANGED isRecentSearchesDataLoaded

\* The list reports the autocomplete item it browses.
UpdateAutocompleteSubstitutions ==
    /\ isRecentSearchesDataLoaded
    /\ \E item \in AutocompleteItems :
         Commit("updateAutocompleteSubstitutions", {item}, updateAutocompleteSubstitutions(Cur, Cur, item))
    /\ UNCHANGED <<isRecentSearchesDataLoaded, edits>>

\* The escape shortcut.
Escape ==
    /\ Commit("close", {}, OnRouterClose(Cur))
    /\ UNCHANGED <<isRecentSearchesDataLoaded, edits>>

\* The header's back button.
BackButtonPress ==
    /\ Commit("close", {}, OnRouterClose(Cur))
    /\ UNCHANGED <<isRecentSearchesDataLoaded, edits>>

\* The task handed to runAfterInteractions runs.
RunAfterInteractions ==
    /\ pendingFocusTasks > 0
    /\ LET s == [Cur EXCEPT !.pendingTasks = @ - 1]
       IN  IF ~isRecentSearchesDataLoaded
           THEN Commit("runAfterInteractions", {}, s)
           ELSE Commit("runAfterInteractions", {}, Call(Call(s, "focus"), "scrollToRight"))
    /\ UNCHANGED <<isRecentSearchesDataLoaded, edits>>

\* The 500ms of useDebouncedState have passed: the debounced value follows.
DebounceElapsed ==
    /\ debouncePending
    /\ Commit("debounce", {}, Call([Cur EXCEPT !.debouncePending = FALSE], "setDebouncedValue"))
    /\ UNCHANGED <<isRecentSearchesDataLoaded, edits>>

\* The parent displays the router again.
OpenRouter ==
    /\ ~isSearchRouterDisplayed
    /\ Commit("env", {}, [Cur EXCEPT !.displayed = TRUE])
    /\ UNCHANGED <<isRecentSearchesDataLoaded, edits>>

Next ==
    \/ RecentSearchesLoaded
    \/ TypeCharacter
    \/ DeleteCharacter
    \/ Enter
    \/ ListItemPress
    \/ SetTextQuery
    \/ UpdateAutocompleteSubstitutions
    \/ Escape
    \/ BackButtonPress
    \/ RunAfterInteractions
    \/ DebounceElapsed
    \/ OpenRouter

Spec == Init /\ [][Next]_vars

\* ------------------------------------------- runs in which a call throws
\* The values a handler closes over when the collaborator `fault` throws.
Faulty(fault) == [Cur EXCEPT !.fault = fault]

\* The handler left a text it has set.
Edited(s) == Called(s.calls, "setTextInputValue") /\ s.text # EmptyText

\* A keystroke during which getUpdatedSubstitutionsMap throws.
TypeCharacterFails ==
    /\ isRecentSearchesDataLoaded
    /\ edits < MaxEdits
    /\ \E ch \in TypedCharacters :
         \E c \in {Faulty("getUpdatedSubstitutionsMap")} :
             Commit("onSearchQueryChange", {},
                    onSearchQueryChange(c, c, Append(textInputValue, ch), FALSE,
                                        autocompleteSubstitutions))
    /\ edits' = edits + 1
    /\ UNCHANGED isRecentSearchesDataLoaded

\* The input's submit event during which a collaborator throws.
EnterFails ==
    /\ isRecentSearchesDataLoaded
    /\ \E fault \in Faults :
         \E focusedOption \in getFocusedOption(Cur) :
             \E m \in UpdatedSubstitutionsMaps(Cur, focusedOption) :
                 \E c \in {Faulty(fault)} :
                     \E s \in {onSubmit(c, c, focusedOption, m)} :
                         /\ s.pendingTasks <= MaxPendingTasks
                         /\ Edited(s) => edits < MaxEdits
                         /\ edits' = IF Edited(s) THEN edits + 1 ELSE edits
                         /\ Commit("onSubmit", focusedOption, s)
    /\ UNCHANGED isRecentSearchesDataLoaded

\* A press on an item of the list during which a collaborator throws.
ListItemPressFails ==
    /\ isRecentSearchesDataLoaded
    /\ \E fault \in Faults :
         \E item \in ListItems(Cur) :
             \E m \in UpdatedSubstitutionsMaps(Cur, {item}) :
                 \E c \in {Faulty(fault)} :
                     \E s \in {onListItemPress(c, c, item, m)} :
                         /\ s.pendingTasks <= MaxPendingTasks
                         /\ Edited(s) => edits < MaxEdits
                         /\ edits' = IF Edited(s) THEN edits + 1 ELSE edits
                         /\ Commit("onListItemPress", {item}, s)
    /\ UNCHANGED isRecentSearchesDataLoaded

NextWithErrors ==
    \/ Next
    \/ TypeCharacterFails
    \/ EnterFails
    \/ ListItemPressFails

SpecWithErrors == Init /\ [][NextWithErrors]_vars

\* ------------------------------------------------------------ properties
\* What the last step was.
IsListHandler == lastOp.name \in {"onListItemPress", "onSubmit"}
IsSuccessfulSubmission == TruthyText(lastOp.updatedQuery)
IsDirectEntitySelection ==
    IsListHandler /\ \E item \in lastOp.item : ~isSearchQueryItem(item)
IsEnterWithoutFocusedOption == lastOp.name = "onSubmit" /\ lastOp.item = {}

\* C1: after every successful submission (submitSearch on a query whose
\* substituted and normalised form is not empty) the text is empty and the
\* substitution map is empty.
SubmissionResetsTextAndMap ==
    IsSuccessfulSubmission =>
        textInputValue = EmptyText /\ autocompleteSubstitutions = {}

\* C2, as stated: every user action makes at most one navigation call, and
\* every successful submission and every press on an item that is not a
\* search-query item makes exactly one.
OneNavigationPerSelection ==
    /\ NavigationCalls(calls) <= 1
    /\ IsSuccessfulSubmission => NavigationCalls(calls) = 1
    /\ IsDirectEntitySelection => NavigationCalls(calls) = 1

\* C2: every user action makes at most one navigation call; every
\* successful submission makes exactly one; a press on an item that is not
\* a search-query item makes exactly one when the item has a reportID or
\* a login key, and none when it has neither.
OneNavigationPerAction ==
    /\ NavigationCalls(calls) <= 1
    /\ IsSuccessfulSubmission => NavigationCalls(calls) = 1
    /\ IsListHandler =>
           \A item \in lastOp.item :
               ~isSearchQueryItem(item) =>
                   NavigationCalls(calls) =
                       (IF Truthy(item.reportID) \/ item.hasLogin THEN 1 ELSE 0)

\* A press on a person with a login and no report opened that person's chat.
PersonOpened ==
    /\ IsListHandler
    /\ \E item \in lastOp.item :
           ~isSearchQueryItem(item) /\ ~Truthy(item.reportID) /\ item.hasLogin
    /\ calls = <<"navigateToAndOpenReport", "onRouterClose">>

\* C3, as stated: the input's submit event on an empty or whitespace-only
\* text never makes a navigation call (here: while the router is displayed).
EmptySubmitNeverNavigates ==
    [][(lastOp'.name = "onSubmit" /\ isSearchRouterDisplayed
          /\ Trim(textInputValue) = EmptyText)
           => NavigationCalls(calls') = 0]_vars

\* C3: the input's submit event on an empty or whitespace-only text, with
\* no option focused in the list, calls submitSearch on that text, which
\* returns at once: no navigation call, no close, no change of the text or
\* of the map.
EmptySubmitWithoutFocusIsNoOp ==
    [][(lastOp'.name = "onSubmit" /\ lastOp'.item = {} /\ Trim(textInputValue) = EmptyText)
           => /\ lastOp'.submitted = textInputValue
              /\ calls' = <<>>
              /\ UNCHANGED <<textInputValue, autocompleteQueryValue, selection,
                             autocompleteSubstitutions, isSearchRouterDisplayed>>]_vars

\* Enter was pressed, with no option focused, on a text of whitespace only.
WhitespaceSubmitted ==
    /\ IsEnterWithoutFocusedOption
    /\ lastOp.submitted # EmptyText
    /\ Trim(lastOp.submitted) = EmptyText
    /\ textInputValue = lastOp.submitted
    /\ calls = <<>>

\* C4, as stated: when submitSearch is called twice in a row with the same
\* query and nothing happens in between, the second call makes no
\* navigation call.
SecondSubmitSearchNeverNavigates ==
    (TruthyText(lastOp.previous) /\ lastOp.submitted = lastOp.previous)
        => NavigationCalls(calls) = 0

\* C4: when the input's submit event fires with no option focused right
\* after a successful submission, with nothing in between, it reads the
\* text that submission emptied and does nothing: no navigation call, no
\* close, no setter.
EnterAfterSubmissionIsNoOp ==
    (TruthyText(lastOp.previous) /\ IsEnterWithoutFocusedOption)
        => /\ lastOp.submitted = EmptyText
           /\ textInputValue = EmptyText
           /\ calls = <<>>

\* Enter was pressed twice in a row with no option focused: the first
\* submitted the text, the second found it empty.
EnterTwice ==
    /\ TruthyText(lastOp.previous)
    /\ IsEnterWithoutFocusedOption
    /\ lastOp.submitted = EmptyText
    /\ ~isSearchRouterDisplayed
    /\ calls = <<>>

\* C5: the selection is within the text: 0 <= start <= end <= length(text).
SelectionWithinText ==
    /\ 0 <= selection.start
    /\ selection.start <= selection.end
    /\ selection.end <= Len(textInputValue)

\* The step accepts `item`, a suggestion of type `type` with a query.
Accepts(item, type) ==
    /\ lastOp'.name \in {"onListItemPress", "onSubmit"}
    /\ item \in lastOp'.item
    /\ isSearchQueryItem(item)
    /\ item.searchItemType = type
    /\ TruthyText(item.searchQuery)

EndsInDelimiter(text) == text # EmptyText /\ text[Len(text)] = NBSP

\* C6, as stated: accepting a contextual suggestion on an empty text leaves
\* the text non-empty and ending in the non-breaking space, and adds
\* exactly one new key to the map whenever the item carries an identifier,
\* for a chat, an invoice and an expense room.
ContextualAcceptAddsOneKey ==
    [][\A item \in lastOp'.item :
          (Accepts(item, CONTEXTUAL_SUGGESTION) /\ textInputValue = EmptyText)
              => /\ EndsInDelimiter(textInputValue')
                 /\ Truthy(item.autocompleteID) =>
                        Cardinality(Keys(autocompleteSubstitutions')
                                        \ Keys(autocompleteSubstitutions)) = 1]_vars

\* C6: accepting a contextual suggestion on an empty text leaves the text
\* non-empty and ending in the non-breaking space. When the item carries an
\* identifier and its room is a chat or an invoice room, the map keeps its
\* keys and maps the item's key (in: or to: and the item's query) to that
\* identifier. Otherwise (an expense room, or no identifier) no key is
\* added.
ContextualAcceptMapsKey ==
    [][\A item \in lastOp'.item :
          (Accepts(item, CONTEXTUAL_SUGGESTION) /\ textInputValue = EmptyText)
              => LET key == <<IF item.roomType = INVOICE THEN KEY_TO ELSE KEY_IN>>
                                \o item.searchQuery
                 IN  /\ EndsInDelimiter(textInputValue')
                     /\ IF Truthy(item.autocompleteID) /\ item.roomType \in {CHAT, INVOICE}
                        THEN /\ [key |-> key, id |-> item.autocompleteID]
                                    \in autocompleteSubstitutions'
                             /\ Keys(autocompleteSubstitutions')
                                    = Keys(autocompleteSubstitutions) \cup {key}
                        ELSE Keys(autocompleteSubstitutions')
                                    \subseteq Keys(autocompleteSubstitutions)]_vars

\* The contextual suggestion of an invoice room was accepted: the text ends
\* in the non-breaking space and the map holds the room's to: key.
InvoiceRoomAccepted ==
    /\ IsListHandler
    /\ \E item \in lastOp.item :
           /\ item.searchItemType = CONTEXTUAL_SUGGESTION
           /\ item.roomType = INVOICE
           /\ [key |-> <<KEY_TO>> \o item.searchQuery, id |-> item.autocompleteID]
                  \in autocompleteSubstitutions
    /\ EndsInDelimiter(textInputValue)
    /\ Called(calls, "runAfterInteractions")

\* What accepting the autocomplete suggestion `item` does to the state.
AutocompleteAccepted(item) ==
    LET text == GetQueryWithoutAutocompletedPart(textInputValue)
                    \o SanitizeSearchValue(item.searchQuery) \o <<NBSP>>
    IN  /\ textInputValue' = text
        /\ selection' = [start |-> Len(text), end |-> Len(text)]
        /\ (TruthyText(item.mapKey) /\ Truthy(item.autocompleteID))
               => [key |-> item.mapKey, id |-> item.autocompleteID]
                      \in autocompleteSubstitutions'
        /\ NavigationCalls(calls') = 0
        /\ ~Called(calls', "onRouterClose")
        /\ lastOp'.submitted = UndefinedText
        /\ isSearchRouterDisplayed' = isSearchRouterDisplayed

\* C7, as stated: accepting an autocomplete suggestion with a query, in any
\* state of the text, edits the text instead of submitting: the text loses
\* its partially typed fragment and gains the suggestion's fragment and the
\* delimiter, the caret is at the end, the identifier is in the map under
\* the item's key, and there is no navigation call and no close.
AutocompleteAcceptAlwaysEdits ==
    [][\A item \in lastOp'.item :
          Accepts(item, AUTOCOMPLETE_SUGGESTION) => AutocompleteAccepted(item)]_vars

\* C7: the same, when the text is not empty.
AutocompleteAcceptEditsText ==
    [][\A item \in lastOp'.item :
          (Accepts(item, AUTOCOMPLETE_SUGGESTION) /\ textInputValue # EmptyText)
              => AutocompleteAccepted(item)]_vars

\* An autocomplete suggestion with a key was accepted over a typed
\* fragment: the fragment is gone, the caret is at the end, the key is in
\* the map.
FragmentCompleted ==
    /\ IsListHandler
    /\ \E item \in lastOp.item :
           /\ item.searchItemType = AUTOCOMPLETE_SUGGESTION
           /\ textInputValue = SanitizeSearchValue(item.searchQuery) \o <<NBSP>>
           /\ [key |-> item.mapKey, id |-> item.autocompleteID] \in autocompleteSubstitutions
    /\ selection.end = Len(textInputValue)
    /\ edits = 2
    /\ Called(calls, "runAfterInteractions")

CloseResetsTextAndMap ==
    (lastOp.name = "close" \/ IsDirectEntitySelection)
        => textInputValue = EmptyText /\ autocompleteSubstitutions = {}

\* The setters of the text, the selection, the autocomplete query value and
\* the map.
IsSetter(name) ==
    name \in {"setTextInputValue", "setAutocompleteQueryValue", "setSelection",
              "setAutocompleteSubstitutions"}

\* C10: once onRouterClose has been called no setter of the text, the
\* selection, the autocomplete query value or the map is called, and while
\* the router stays closed no deferred focus task and no debounce timer
\* takes effect.
NothingHappensAfterClose ==
    /\ \A i \in 1..Len(calls) : \A j \in 1..Len(calls) :
           (i < j /\ calls[i] = "onRouterClose") => ~IsSetter(calls[j])
    /\ (~isSearchRouterDisplayed /\ lastOp.name \in {"runAfterInteractions", "debounce"})
           => calls = <<>>

\* C11: a keystroke does not itself update the query value that drives the
\* suggestion list: for two keystrokes less than 500ms apart the value is
\* not updated for the first, and follows only when the debounce elapses.
KeystrokeWaitsForDebounce ==
    [][lastOp'.name = "onSearchQueryChange"
          => autocompleteQueryValue' = autocompleteQueryValue]_vars

\* C12: every error the router catches and logs is thrown again to the
\* caller: a handler that has logged an error (Log.alert) has thrown it on.
CaughtErrorsAreRethrown ==
    Called(calls, "Log.alert") => Called(calls, "throw")

\* C13: a contextual suggestion is offered only if the text is empty, the
\* router is displayed and the focused screen's report is among the recent
\* reports.
ContextualOfferedOnlyWhenIdle ==
    \A id \in ContextualReportIDs :
        getAdditionalSections(Cur, id, RecentReports) # {}
            => /\ textInputValue = EmptyText
               /\ isSearchRouterDisplayed
               /\ Truthy(id)
               /\ \E o \in RecentReports : o.reportID = id

\* The text was typed and deleted again, and the contextual suggestion of
\* the open chat is back.
ContextualOfferedAgain ==
    /\ lastOp.name = "onSearchQueryChange"
    /\ edits = MaxEdits
    /\ getAdditionalSections(Cur, "r1", RecentReports) # {}

\* C14: merging a key/identifier pair the map already holds emits no state
\* update: a step that calls setAutocompleteSubstitutions changes the map.
MergeEmitsNoSpuriousUpdate ==
    [][Called(calls', "setAutocompleteSubstitutions")
          => autocompleteSubstitutions' # autocompleteSubstitutions]_vars

IsFragmentOf(key, text) ==
    \E i \in 0..(Len(text) - Len(key)) : SubSeq(text, i + 1, i + Len(key)) = key

\* C16: every key of the map occurs as a literal fragment of the text:
\* right after a contextual suggestion is accepted, the key just added
\* appears in the text exactly as written in the map.
AcceptedKeyIsFragmentOfText ==
    [][\A item \in lastOp'.item :
          (Accepts(item, CONTEXTUAL_SUGGESTION) /\ textInputValue = EmptyText)
              => \A key \in Keys(autocompleteSubstitutions') \ Keys(autocompleteSubstitutions) :
                     IsFragmentOf(key, textInputValue')]_vars

\* Every call named `first` comes before every navigation call, and both occur.
PrecedesNavigation(cs, first) ==
    /\ Called(cs, first)
    /\ NavigationCalls(cs) > 0
    /\ \A i, j \in 1..Len(cs) : (cs[i] = first /\ IsNavigation(cs[j])) => i < j

\* Every navigation call comes before every call named `last`, and both occur.
NavigationPrecedes(cs, last) ==
    /\ Called(cs, last)
    /\ NavigationCalls(cs) > 0
    /\ \A i, j \in 1..Len(cs) : (IsNavigation(cs[i]) /\ cs[j] = last) => i < j

RenderPressable ==
    /\ \E props \in PressableProps : pressable' = WebGenericPressable(props)
    /\ UNCHANGED <<textInputValue, autocompleteQueryValue, selection,
                   autocompleteSubstitutions, shouldScrollRef, isSearchRouterDisplayed,
                   isRecentSearchesDataLoaded, debouncePending, pendingFocusTasks,
                   edits, lastOp, calls>>

SpecPressable == Init /\ [][RenderPressable]_vars

\* C18: an explicitly given tabIndex is passed through unchanged; when it
\* is absent the tabIndex is -1 if the element is not accessible or not
\* focusable, and 0 otherwise.
TabIndexPassedThrough ==
    pressable.tabIndex =
        IF pressable.props.tabIndex.given
        THEN pressable.props.tabIndex.value
        ELSE IF pressable.props.accessible = "false" \/ pressable.props.focusable = "false"
             THEN -1
             ELSE 0

====
